---- MODULE Spec2Model ----
(***************************************************************************)
(* FKM Instance Manager (src/manager.py): the switch/action orchestration  *)
(* engine.  Request handlers probe the ActionLock and spawn one background *)
(* thread per accepted mutating request; each background worker runs its   *)
(* whole body under "with _action_lock" and reports through the global     *)
(* progress record.  The persisted Selection lives in LOCK_FILE, the       *)
(* registry is the _instances cache rebuilt from the instances directory.  *)
(*                                                                         *)
(* Granularity: a handler is one step (two for create, whose selection     *)
(* read follows its registry refresh); a worker takes one step per call    *)
(* that touches shared state (a progress_* call, an external command, a    *)
(* registry or selection access), labelled by the source line it stands    *)
(* at.  refresh_instances is one step, except in SpecRefresh, which takes  *)
(* it statement by statement; the progress functions are one step, except  *)
(* in SpecLocks, which takes and releases _progress_lock around them.      *)
(***************************************************************************)
EXTENDS Integers, Sequences, FiniteSets, TLC

\* ------------------------------------------------------------------ bounds

\* Background threads (accepted mutating requests) per behaviour.
MaxThreads == 2

\* Output lines one external command may print.
MaxOut == 1

\* ------------------------------------------------------------------ inputs

\* Instance names that requests and the instances directory may use.
Names == {"a", "b"}

\* Python None: no selection, no target, an absent LOCK_FILE.
None == "none"

\* "action" values of /api/action: the four of cmd_map and an unknown one.
Actions == {"pull", "stop", "start", "down_volumes", "bogus"}

\* Exit codes of an external command: 0, and 1 for every non-zero code (the
\* -1 of a timeout or of a failed launch included; the code only tests != 0).
ExitCodes == {0, 1}

\* Fields a /api/wifi request body may fill in (hs_ssid stands for two
\* "uci set" commands).
WifiFields == {"hs_ssid"}

\* Template keys a create request may carry, and the ones that resolve to
\* an existing directory.
TemplateKeys == {"fkmtest", "prod", "nokey"}

TEMPLATES == {"fkmtest", "prod"}

ExistingTemplateDirs == {"fkmtest"}

Threads == 1..MaxThreads

\* ------------------------------------------------------------------- state

VARIABLES
    fs,            \* names that are directories under INSTANCES_DIR
    instances,     \* _instances: the registry cache, in os.listdir order
    lockFile,      \* content of LOCK_FILE (None when the file is absent)
    up,            \* instances whose containers all report "running"
    action_lock,   \* _action_lock: 0 when free, else the holding thread
    progress,      \* _progress
    thr,           \* background threads: kind, arguments, locals, position
    creating,      \* create_instance between its refresh and its selection read
    create_call,   \* the last /api/instance/create request and its answer
    boots,         \* restarts of the manager process so far
    probe,         \* a docker compose ps output and what compose_status made of it
    refreshing,    \* refresh_instances under way: the listing still to insert
    sup,           \* the port 80 manager: server, _port80_lock, its two callers
    plock,         \* _progress_lock: holder, where it was taken, a reset half done
    poll           \* a /api/progress request: position and the snapshot returned

\* The state that the handlers and workers above the create section leave
\* alone in every step.
side == <<boots, probe, refreshing, sup, plock, poll>>

vars == <<fs, instances, lockFile, up, action_lock, progress, thr, creating, create_call, side>>

\* ----------------------------------------------------------------- helpers

Range(s) == {s[i] : i \in DOMAIN s}

\* All orders in which os.listdir may return the directories in S.
Orders(S) ==
    {s \in [1..Cardinality(S) -> S] : \A i, j \in DOMAIN s : i # j => s[i] # s[j]}

refresh_instances_bad(dirs) == {instances}

\* refresh_instances(): the cache rebuilt from the directories in dirs, in
\* any order os.listdir may give them.
refresh_instances(dirs) == Orders(dirs)

RemoveTree_bad(dirs, name) == dirs

\* shutil.rmtree(path): the directories left once name's is removed.
RemoveTree(dirs, name) == dirs \ {name}

\* A thread that was never started, and one that has returned.
\* kind, pc: the worker function and the source line the thread stands at;
\* target, action, fields: the arguments; selected, use_name, was_running,
\* code, ok, cmds_set, i, stages: the function's locals; ran: the external
\* commands the thread has run so far, each with its directory and exit code
\* (a record of what the thread did, which no statement of the source reads).
Unborn == [kind |-> "none", pc |-> "unborn", target |-> None, action |-> None,
           fields |-> {}, selected |-> None, use_name |-> None,
           was_running |-> FALSE, code |-> 0, ok |-> TRUE, cmds_set |-> <<>>,
           i |-> 0, stages |-> <<>>, ran |-> <<>>]

Ended == [Unborn EXCEPT !.pc = "ended"]

\* Threads started and not yet returned (accepted operations in flight).
InFlight == {w \in Threads : thr[w].pc \notin {"unborn", "ended"}}

\* The thread the next accepted request starts.
NextThread == CHOOSE w \in Threads : thr[w].pc = "unborn" /\
                  \A v \in Threads : v < w => thr[v].pc # "unborn"

CanSpawn == \E w \in Threads : thr[w].pc = "unborn"

\* threading.Thread(target=..., args=...).start(): the new thread stands
\* before its "with _action_lock".
Spawn(kind, pc, target, action, fields) ==
    thr' = [thr EXCEPT ![NextThread] =
               [Unborn EXCEPT !.kind = kind, !.pc = pc, !.target = target,
                              !.action = action, !.fields = fields]]

\* ---------------------------------------------------------------- progress

InitialProgress ==
    [active |-> FALSE, stages |-> <<>>, log |-> <<>>, done |-> TRUE, ok |-> TRUE]

progress_reset(stages) ==
    [active |-> TRUE, done |-> FALSE, ok |-> TRUE, log |-> <<>>,
     stages |-> [i \in DOMAIN stages |-> [label |-> stages[i], status |-> "pending"]]]

progress_stage_bad(p, idx, status, log_line) ==
    [p EXCEPT !.stages = [i \in DOMAIN p.stages |->
                             IF i >= idx + 1 THEN [p.stages[i] EXCEPT !.status = status]
                             ELSE p.stages[i]],
              !.log = IF log_line # "" THEN Append(p.log, log_line) ELSE p.log]

\* idx counts from 0 as in the source; an index past the end is ignored.
progress_stage(p, idx, status, log_line) ==
    [p EXCEPT !.stages = IF idx < Len(p.stages)
                         THEN [p.stages EXCEPT ![idx + 1].status = status]
                         ELSE p.stages,
              !.log = IF log_line # "" THEN Append(p.log, log_line) ELSE p.log]

progress_done_bad(p, ok) ==
    [p EXCEPT !.done = TRUE, !.ok = ok]

progress_done(p, ok) ==
    [p EXCEPT !.done = TRUE, !.active = FALSE, !.ok = ok]

\* json.loads(json.dumps(_progress)) under _progress_lock: a deep copy.
get_progress == progress

\* ---------------------------------------------------------------- selection

set_selected_bad(insts, file, name) == file

\* The LOCK_FILE content after set_selected(name).
set_selected(insts, file, name) ==
    IF name # None /\ name \in Range(insts) THEN name ELSE None

get_selected_bad(insts, file) ==
    IF file # None /\ file \in Range(insts)
    THEN [ret |-> file, file |-> file]
    ELSE [ret |-> None, file |-> file]

get_selected_first_bad(insts, file) ==
    IF insts # <<>>
    THEN [ret |-> insts[1], file |-> insts[1]]
    ELSE [ret |-> None, file |-> file]

\* get_selected(): the value returned and the LOCK_FILE content it leaves.
get_selected(insts, file) ==
    IF file # None /\ file \in Range(insts)
    THEN [ret |-> file, file |-> file]
    ELSE IF insts # <<>>
         THEN [ret |-> insts[1], file |-> set_selected(insts, file, insts[1])]
         ELSE [ret |-> None, file |-> file]

compose_status_bad(insts, name) == FALSE

\* compose_status(name)[0].
compose_status(insts, name) == name \in Range(insts) /\ name \in up

\* ------------------------------------------------------- external commands

\* What a finished docker compose command leaves running: "up -d" brings the
\* instance up, "down" and "down --volumes" take it down, every other command
\* and every failed command leaves the run-state as it was.
RunEffect(cmd, cwd, code) ==
    IF code # 0 THEN up
    ELSE IF cmd = "up" THEN up \cup {cwd}
    ELSE IF cmd \in {"down", "down_volumes"} THEN up \ {cwd}
    ELSE up

\* The progress record after run_cmd_live has streamed n output lines:
\* progress_stage(stage_idx, "running", line) once per line.
RECURSIVE Streamed(_, _, _)
Streamed(p, stage_idx, n) ==
    IF n = 0 THEN p
    ELSE Streamed(progress_stage(p, stage_idx, "running", "out"), stage_idx, n - 1)

StageResult_bad(code) == "done"

\* "done" if code == 0 else "error"
StageResult(code) == IF code = 0 THEN "done" ELSE "error"

\* ------------------------------------------------------------ worker steps

\* with _action_lock: a blocking acquire.
LockFree_bad == TRUE

LockFree == action_lock = 0

Acquire(w, from, to) ==
    /\ thr[w].pc = from
    /\ LockFree
    /\ action_lock' = w
    /\ thr' = [thr EXCEPT ![w].pc = to]
    /\ UNCHANGED <<fs, instances, lockFile, up, progress, creating, create_call, side>>

Release_bad(w) ==
    /\ thr[w].pc \in {"exit", "raised"}
    /\ thr' = [thr EXCEPT ![w] = Ended]
    /\ UNCHANGED <<fs, instances, lockFile, up, action_lock, progress, creating, create_call, side>>

\* Leaving the with block (by return, at its end, or by an exception that
\* nothing catches) releases the lock and the thread ends.
Release(w) ==
    /\ thr[w].pc \in {"exit", "raised"}
    /\ action_lock' = 0
    /\ thr' = [thr EXCEPT ![w] = Ended]
    /\ UNCHANGED <<fs, instances, lockFile, up, progress, creating, create_call, side>>

ResetStep(w, from, stages, to) ==
    /\ thr[w].pc = from
    /\ progress' = progress_reset(stages)
    /\ thr' = [thr EXCEPT ![w].pc = to]
    /\ UNCHANGED <<fs, instances, lockFile, up, action_lock, creating, create_call, side>>

StageStep(w, from, idx, status, log_line, to) ==
    /\ thr[w].pc = from
    /\ progress' = progress_stage(progress, idx, status, log_line)
    /\ thr' = [thr EXCEPT ![w].pc = to]
    /\ UNCHANGED <<fs, instances, lockFile, up, action_lock, creating, create_call, side>>

DoneStep(w, from, ok) ==
    /\ thr[w].pc = from
    /\ progress' = progress_done(progress, ok)
    /\ thr' = [thr EXCEPT ![w].pc = "exit"]
    /\ UNCHANGED <<fs, instances, lockFile, up, action_lock, creating, create_call, side>>

\* A call raises an exception that the worker does not catch: the thread
\* leaves its with block at once, without calling progress_done.
RaiseStep(w, from) ==
    /\ thr[w].pc = from
    /\ thr' = [thr EXCEPT ![w].pc = "raised"]
    /\ UNCHANGED <<fs, instances, lockFile, up, action_lock, progress, creating, create_call, side>>

\* code, out = run_cmd_live(cmd, cwd=..., stage_idx=...): the command prints
\* up to MaxOut lines, each streamed into the log, and ends with some exit
\* code (-1 when it was killed at its timeout, which line 166 tests after a
\* line has been read and line 171 after the output has ended).  A command
\* that goes silent without closing its output leaves the thread in the read
\* of line 163, where no deadline is looked at: pc "L163" has no step.
CmdLiveStep(w, from, cmd, cwd, stage_idx, to) ==
    /\ thr[w].pc = from
    /\ \/ \E code \in ExitCodes, n \in 0..MaxOut :
              /\ progress' = Streamed(progress, stage_idx, n)
              /\ up' = RunEffect(cmd, cwd, code)
              /\ thr' = [thr EXCEPT ![w].pc = to, ![w].code = code,
                                    ![w].ran = Append(@, [cmd |-> cmd, cwd |-> cwd,
                                                          code |-> code])]
       \/ \E n \in 0..MaxOut :
              /\ progress' = Streamed(progress, stage_idx, n)
              /\ up' = up
              /\ thr' = [thr EXCEPT ![w].pc = "L163"]
    /\ UNCHANGED <<fs, instances, lockFile, action_lock, creating, create_call, side>>

\* ------------------------------------------------------------ _do_switch_to

\* if selected == target or selected is None
IsDegenerateSwitch_bad(selected, target) == selected = None

IsDegenerateSwitch(selected, target) == selected = target \/ selected = None

Halts_bad(code) == FALSE

\* if code != 0: progress_done(ok=False); return
Halts(code) == code # 0

do_switch_to(w) ==
    LET t == thr[w].target
        sel == thr[w].selected
        code == thr[w].code
    IN
    \/ Acquire(w, "L287", "L288")
    \/ /\ thr[w].pc = "L288"
       /\ IF t \notin Range(instances)
          THEN /\ thr' = [thr EXCEPT ![w].pc = "L290"]
               /\ UNCHANGED lockFile
          ELSE LET g == get_selected(instances, lockFile) IN
               /\ lockFile' = g.file
               /\ thr' = [thr EXCEPT ![w].selected = g.ret,
                                     ![w].pc = IF IsDegenerateSwitch(g.ret, t)
                                               THEN "L294" ELSE "L303"]
       /\ UNCHANGED <<fs, instances, up, action_lock, progress, creating, create_call, side>>
    \/ DoneStep(w, "L290", FALSE)
    \* start only
    \/ ResetStep(w, "L294", << <<"Start", t>> >>, "L295")
    \/ StageStep(w, "L295", 0, "running", "", "L296")
    \/ CmdLiveStep(w, "L296", "up", t, 0, "L297")
    \/ StageStep(w, "L297", 0, StageResult(code), "", "L298")
    \/ /\ thr[w].pc = "L298"
       /\ lockFile' = IF code = 0 THEN set_selected(instances, lockFile, t)
                      ELSE lockFile
       /\ thr' = [thr EXCEPT ![w].pc = "L300"]
       /\ UNCHANGED <<fs, instances, up, action_lock, progress, creating, create_call, side>>
    \* set_selected(target) raises: LOCK_FILE cannot be opened for writing
    \/ code = 0 /\ RaiseStep(w, "L298")
    \/ DoneStep(w, "L300", code = 0)
    \* full switch
    \/ ResetStep(w, "L303", << <<"Stop", sel>>, <<"Start", t>>,
                               <<"Update selection", None>> >>, "L304")
    \/ StageStep(w, "L304", 0, "running", "", "L305")
    \/ CmdLiveStep(w, "L305", "down", sel, 0, "L306")
    \/ StageStep(w, "L306", 0, StageResult(code), "",
                 IF Halts(code) THEN "L308" ELSE "L310")
    \/ DoneStep(w, "L308", FALSE)
    \/ StageStep(w, "L310", 1, "running", "", "L311")
    \/ CmdLiveStep(w, "L311", "up", t, 1, "L312")
    \/ StageStep(w, "L312", 1, StageResult(code), "",
                 IF Halts(code) THEN "L314" ELSE "L316")
    \/ DoneStep(w, "L314", FALSE)
    \/ StageStep(w, "L316", 2, "running", "", "L317")
    \/ /\ thr[w].pc = "L317"
       /\ lockFile' = set_selected(instances, lockFile, t)
       /\ thr' = [thr EXCEPT ![w].pc = "L318"]
       /\ UNCHANGED <<fs, instances, up, action_lock, progress, creating, create_call, side>>
    \/ RaiseStep(w, "L317")
    \/ StageStep(w, "L318", 2, "done", "Selected", "L319")
    \/ DoneStep(w, "L319", TRUE)

\* --------------------------------------------------------- _do_action_async

\* cmd_map.get(action): the compose command of an action, None if unknown.
cmd_map(action) ==
    IF action = "pull" THEN "pull"
    ELSE IF action = "stop" THEN "down"
    ELSE IF action = "start" THEN "up"
    ELSE IF action = "down_volumes" THEN "down_volumes"
    ELSE None

\* label_map.get(action, action)
label_map(action, use_name) ==
    IF cmd_map(action) # None THEN <<action, use_name>> ELSE <<action, None>>

do_action_async(w) ==
    LET t == thr[w].target
        a == thr[w].action
        use_name == thr[w].use_name
        code == thr[w].code
        restart == a = "down_volumes" /\ thr[w].was_running
    IN
    \/ Acquire(w, "L324", "L325")
    \/ /\ thr[w].pc = "L325"
       /\ LET direct == t # None /\ t \in Range(instances)
              g == get_selected(instances, lockFile)
              u == IF direct THEN t ELSE g.ret
              was == a = "down_volumes" /\ compose_status(instances, u)
          IN
          /\ lockFile' = IF direct THEN lockFile ELSE g.file
          /\ thr' = [thr EXCEPT
                 ![w].use_name = u,
                 ![w].was_running = was,
                 ![w].stages = IF was THEN <<label_map(a, u), <<"Restart", u>> >>
                               ELSE <<label_map(a, u)>>,
                 ![w].pc = IF u = None \/ u \notin Range(instances) THEN "L328"
                           ELSE IF cmd_map(a) = None THEN "L348"
                           ELSE "L361"]
       /\ UNCHANGED <<fs, instances, up, action_lock, progress, creating, create_call, side>>
    \/ ResetStep(w, "L328", << <<a, None>> >>, "L329")
    \/ StageStep(w, "L329", 0, "error", "No valid instance selected", "L330")
    \/ DoneStep(w, "L330", FALSE)
    \/ ResetStep(w, "L348", <<label_map(a, use_name)>>, "L349")
    \/ StageStep(w, "L349", 0, "error", "Unknown action", "L350")
    \/ DoneStep(w, "L350", FALSE)
    \/ ResetStep(w, "L361", thr[w].stages, "L362")
    \/ StageStep(w, "L362", 0, "running", "", "L363")
    \/ CmdLiveStep(w, "L363", cmd_map(a), use_name, 0, "L364")
    \/ StageStep(w, "L364", 0, StageResult(code), "",
                 IF Halts(code) THEN "L366"
                 ELSE IF restart THEN "L370" ELSE "L374")
    \/ DoneStep(w, "L366", FALSE)
    \/ StageStep(w, "L370", 1, "running", "", "L371")
    \/ CmdLiveStep(w, "L371", "up", use_name, 1, "L372")
    \/ StageStep(w, "L372", 1, StageResult(code), "", "L374")
    \/ DoneStep(w, "L374", code = 0)

\* --------------------------------------------------------- _do_delete_async

do_delete_async(w) ==
    LET name == thr[w].target
        code == thr[w].code
    IN
    \/ Acquire(w, "L377", "L378")
    \/ /\ thr[w].pc = "L378"
       /\ thr' = [thr EXCEPT ![w].pc = IF name \notin Range(instances)
                                       THEN "L380" ELSE "L385"]
       /\ UNCHANGED <<fs, instances, lockFile, up, action_lock, progress, creating, create_call, side>>
    \/ ResetStep(w, "L380", << <<"Delete", name>> >>, "L381")
    \/ StageStep(w, "L381", 0, "error", "Instance not found", "L382")
    \/ DoneStep(w, "L382", FALSE)
    \/ ResetStep(w, "L385", << <<"Stop containers", name>>, <<"Remove", name>> >>,
                 "L386")
    \/ StageStep(w, "L386", 0, "running", "", "L387")
    \/ CmdLiveStep(w, "L387", "down_volumes", name, 0, "L388")
    \/ StageStep(w, "L388", 0, StageResult(code), "", "L389")
    \/ StageStep(w, "L389", 1, "running", "", "L391")
    \* shutil.rmtree(path); refresh_instances().  thr[w].selected keeps what
    \* LOCK_FILE held when the directory went (no local of the source).
    \/ /\ thr[w].pc = "L391"
       /\ fs' = RemoveTree(fs, name)
       /\ instances' \in refresh_instances(fs')
       /\ thr' = [thr EXCEPT ![w].pc = "L393", ![w].selected = lockFile]
       /\ UNCHANGED <<lockFile, up, action_lock, progress, creating, create_call, side>>
    \* shutil.rmtree raises: nothing is removed, the registry is not rebuilt
    \/ /\ thr[w].pc = "L391"
       /\ thr' = [thr EXCEPT ![w].pc = "L405"]
       /\ UNCHANGED <<fs, instances, lockFile, up, action_lock, progress, creating, create_call, side>>
    \* if get_selected() == name: set_selected(next(iter(new_insts))) or unlink
    \/ /\ thr[w].pc = "L393"
       /\ LET g == get_selected(instances, lockFile) IN
          lockFile' = IF g.ret = name
                      THEN IF instances # <<>>
                           THEN set_selected(instances, g.file, instances[1])
                           ELSE None
                      ELSE g.file
       /\ thr' = [thr EXCEPT ![w].pc = "L402"]
       /\ UNCHANGED <<fs, instances, up, action_lock, progress, creating, create_call, side>>
    \/ StageStep(w, "L402", 1, "done", "Instance removed", "L403")
    \/ DoneStep(w, "L403", TRUE)
    \/ StageStep(w, "L405", 1, "error", "str(e)", "L406")
    \/ DoneStep(w, "L406", FALSE)

\* ----------------------------------------------------------- _do_wifi_async

\* cmds_set: two "uci set" commands for hs_ssid and for hs_psk, one for
\* sta_ssid and for sta_psk, in that order.
BuildCmds(fields) ==
    (IF "hs_ssid" \in fields THEN <<"radio1.ssid", "radio2.ssid">> ELSE <<>>)
    \o (IF "hs_psk" \in fields THEN <<"radio1.key", "radio2.key">> ELSE <<>>)
    \o (IF "sta_ssid" \in fields THEN <<"radio0.ssid">> ELSE <<>>)
    \o (IF "sta_psk" \in fields THEN <<"radio0.key">> ELSE <<>>)

CmdStep_bad(w, from, cmd, stage_idx, to) ==
    /\ thr[w].pc = from
    /\ \E code \in ExitCodes :
           /\ thr' = [thr EXCEPT ![w].pc = IF stage_idx = 0 /\ code # 0
                                           THEN "L447" ELSE to,
                                 ![w].code = code,
                                 ![w].ok = IF stage_idx = 0 /\ code # 0 THEN FALSE ELSE @,
                                 ![w].ran = Append(@, [cmd |-> cmd, cwd |-> None,
                                                       code |-> code])]
    /\ UNCHANGED <<fs, instances, lockFile, up, action_lock, progress, creating,
                   create_call, side>>

\* code, out = run_cmd(cmd, timeout=...); if out.strip(): progress_stage(
\* stage_idx, "running", out.strip()).  The command's output is empty or not.
\* In the loop of stage 0 a failure also clears ok (if code != 0: ok = False).
CmdStep(w, from, cmd, stage_idx, to) ==
    /\ thr[w].pc = from
    /\ \E code \in ExitCodes, out \in BOOLEAN :
           /\ progress' = IF out THEN progress_stage(progress, stage_idx, "running", "out")
                          ELSE progress
           /\ thr' = [thr EXCEPT ![w].pc = to, ![w].code = code,
                                 ![w].ok = IF stage_idx = 0 /\ code # 0 THEN FALSE ELSE @,
                                 ![w].ran = Append(@, [cmd |-> cmd, cwd |-> None,
                                                       code |-> code])]
    /\ UNCHANGED <<fs, instances, lockFile, up, action_lock, creating, create_call, side>>

do_wifi_async(w) ==
    LET sel == thr[w].selected
        code == thr[w].code
        cmds == thr[w].cmds_set
        i == thr[w].i
    IN
    \/ Acquire(w, "L409", "L410")
    \* cmds_set is never empty here: the handler rejects a request with no
    \* field, so lines 422-426 are not reached.
    \/ /\ thr[w].pc = "L410"
       /\ LET g == get_selected(instances, lockFile)
              running == g.ret # None /\ compose_status(instances, g.ret)
          IN
          /\ lockFile' = g.file
          /\ thr' = [thr EXCEPT
                 ![w].cmds_set = BuildCmds(thr[w].fields),
                 ![w].selected = g.ret,
                 ![w].ok = TRUE,
                 ![w].i = 0,
                 ![w].stages = <<"Set WiFi parameters", "Commit & reload WiFi">>
                               \o (IF running THEN <<"Restart compose">> ELSE <<>>),
                 ![w].pc = "L434"]
       /\ UNCHANGED <<fs, instances, up, action_lock, progress, creating, create_call, side>>
    \/ ResetStep(w, "L434", [k \in DOMAIN thr[w].stages |->
                                <<thr[w].stages[k], IF k = 3 THEN sel ELSE None>>],
                 "L437")
    \/ StageStep(w, "L437", 0, "running", "", "L439")
    \* for cmd in cmds_set
    \/ /\ thr[w].pc = "L439"
       /\ thr' = [thr EXCEPT ![w].i = i + 1,
                             ![w].pc = IF i < Len(cmds) THEN "L441" ELSE "L447"]
       /\ UNCHANGED <<fs, instances, lockFile, up, action_lock, progress, creating, create_call, side>>
    \/ StageStep(w, "L441", 0, "running", "$ uci set", "L442")
    \/ CmdStep(w, "L442", cmds[i], 0, "L439")
    \/ StageStep(w, "L447", 0, IF thr[w].ok THEN "done" ELSE "error", "",
                 IF thr[w].ok THEN "L453" ELSE "L449")
    \/ DoneStep(w, "L449", FALSE)
    \/ StageStep(w, "L453", 1, "running", "", "L454")
    \/ StageStep(w, "L454", 1, "running", "$ uci commit wireless", "L455")
    \/ CmdStep(w, "L455", "uci commit", 1, "L458")
    \/ /\ code # 0
       /\ StageStep(w, "L458", 1, "error", "uci commit failed", "L460")
    \/ DoneStep(w, "L460", FALSE)
    \/ /\ code = 0
       /\ StageStep(w, "L458", 1, "running", "$ wifi reload", "L463")
    \/ CmdLiveStep(w, "L463", "wifi reload", None, 1, "L464")
    \/ StageStep(w, "L464", 1, "done", "",
                 IF Len(thr[w].stages) > 2 /\ sel # None THEN "L468" ELSE "L473")
    \/ StageStep(w, "L468", 2, "running", "", "L469")
    \/ StageStep(w, "L469", 2, "running", "$ docker compose restart", "L470")
    \/ CmdLiveStep(w, "L470", "restart", sel, 2, "L471")
    \/ StageStep(w, "L471", 2, StageResult(code), "", "L473")
    \/ DoneStep(w, "L473", TRUE)

\* --------------------------------------------------- _do_env_restart_async

do_env_restart_async(w) ==
    LET name == thr[w].target
        code == thr[w].code
    IN
    \/ Acquire(w, "L477", "L478")
    \/ /\ thr[w].pc = "L478"
       /\ thr' = [thr EXCEPT ![w].pc = IF name \notin Range(instances)
                                       THEN "L480" ELSE "L484"]
       /\ UNCHANGED <<fs, instances, lockFile, up, action_lock, progress, creating, create_call, side>>
    \/ ResetStep(w, "L480", << <<"Restart", name>> >>, "L481")
    \/ StageStep(w, "L481", 0, "error", "Instance not found", "L482")
    \/ DoneStep(w, "L482", FALSE)
    \/ ResetStep(w, "L484", << <<"Apply .env changes", name>> >>, "L485")
    \/ StageStep(w, "L485", 0, "running", "", "L486")
    \/ StageStep(w, "L486", 0, "running", "$ docker compose up -d", "L487")
    \/ CmdLiveStep(w, "L487", "up", name, 0, "L488")
    \/ StageStep(w, "L488", 0, StageResult(code), "", "L489")
    \/ DoneStep(w, "L489", code = 0)

\* ----------------------------------------------------------------- handlers

\* The answers of the mutating endpoints of Handler.do_POST.  /api/action,
\* /api/instance/delete and /api/wifi probe the lock with acquire(blocking=
\* False) and release it at once; /api/switch_to reads locked().
switch_to_reply(target) ==
    IF target = None \/ target \notin Range(instances) THEN "invalid"
    ELSE IF action_lock # 0 THEN "busy"
    ELSE "accepted"

action_reply == IF action_lock # 0 THEN "busy" ELSE "accepted"

delete_reply(name) ==
    IF name = None \/ name \notin Range(instances) THEN "not found"
    ELSE IF action_lock # 0 THEN "busy"
    ELSE "accepted"

wifi_reply(fields) ==
    IF fields = {} THEN "invalid"
    ELSE IF action_lock # 0 THEN "busy"
    ELSE "accepted"

\* A handler answers; when the answer is "accepted" it has started the
\* worker thread.  A behaviour starts at most MaxThreads of them.
Answer(reply, kind, pc, target, action, fields) ==
    /\ reply = "accepted" => CanSpawn
    /\ IF reply = "accepted"
       THEN Spawn(kind, pc, target, action, fields)
       ELSE UNCHANGED thr

POST_switch_to(target) ==
    /\ Answer(switch_to_reply(target), "switch", "L287", target, None, {})
    /\ UNCHANGED <<fs, instances, lockFile, up, action_lock, progress, creating, create_call, side>>

POST_action(action, target) ==
    /\ Answer(action_reply, "action", "L324", target, action, {})
    /\ UNCHANGED <<fs, instances, lockFile, up, action_lock, progress, creating, create_call, side>>

POST_instance_delete(name) ==
    /\ Answer(delete_reply(name), "delete", "L377", name, None, {})
    /\ UNCHANGED <<fs, instances, lockFile, up, action_lock, progress, creating, create_call, side>>

POST_wifi(fields) ==
    /\ Answer(wifi_reply(fields), "wifi", "L409", None, None, fields)
    /\ UNCHANGED <<fs, instances, lockFile, up, action_lock, progress, creating, create_call, side>>

\* /api/env/save: selected = get_selected(); write_env(selected, ...) raises
\* when nothing is selected; the restart is started if the instance runs and
\* the lock probe succeeds.
env_save_restarting(selected) ==
    selected # None /\ compose_status(instances, selected) /\ action_lock = 0

POST_env_save ==
    LET g == get_selected(instances, lockFile) IN
    /\ lockFile' = g.file
    /\ Answer(IF env_save_restarting(g.ret) THEN "accepted" ELSE "saved",
              "env", "L477", g.ret, None, {})
    /\ UNCHANGED <<fs, instances, up, action_lock, progress, creating, create_call, side>>

\* GET /api/status and GET /api/env read the selection.
GET_status ==
    /\ lockFile' = get_selected(instances, lockFile).file
    /\ UNCHANGED <<fs, instances, up, action_lock, progress, thr, creating, create_call, side>>

\* ------------------------------------------------------------ create_instance

\* Characters a requested name is made of: ASCII letters and digits, the two
\* signs the validator names, a space, a slash, and one letter outside ASCII
\* (U+00E9, e with acute accent).
AsciiLetters == {"a", "b", "d", "e", "v", "Z"}

AsciiDigits == {"1", "7"}

NonAsciiLetters == {"U+00E9"}

\* str.isalnum() of one character: true of every letter and every digit of
\* Unicode, not only of the ASCII ones.
isalnum(c) == c \in AsciiLetters \cup AsciiDigits \cup NonAsciiLetters

\* str.strip(): the string without its leading and trailing whitespace.
RECURSIVE lstrip(_)
lstrip(s) == IF s # <<>> /\ Head(s) = " " THEN lstrip(Tail(s)) ELSE s

RECURSIVE rstrip(_)
rstrip(s) ==
    IF s # <<>> /\ s[Len(s)] = " " THEN rstrip(SubSeq(s, 1, Len(s) - 1)) ELSE s

strip(s) == rstrip(lstrip(s))

\* os.path.join(INSTANCES_DIR, name): the directory name the characters spell.
RECURSIVE Join(_)
Join(s) == IF s = <<>> THEN "" ELSE Head(s) \o Join(Tail(s))

\* len(name) > 64
NameLimit == 64

\* not (not name or len(name) > 64 or not all(c.isalnum() or c in ('-','_')))
NameAccepted(name) ==
    /\ name # <<>>
    /\ Len(name) <= NameLimit
    /\ \A i \in DOMAIN name : isalnum(name[i]) \/ name[i] \in {"-", "_"}

\* Names a create request of SpecSel and SpecCreate may carry: the two of
\* Names, one of them with a trailing space, one with a space inside, and
\* the empty one.
CreateNames ==
    {<<"a">>, <<"b">>, <<"a", " ">>, <<"d", "e", "v", " ", "1">>, <<>>}

create_reply_bad(name, template_key) ==
    IF ~NameAccepted(name) THEN "Invalid name"
    ELSE IF template_key \notin TEMPLATES \/ template_key \notin ExistingTemplateDirs
         THEN "Template not found"
    ELSE "ok"

\* The value create_instance returns for the stripped name; "ok" stands for
\* (True, None) once the copy has succeeded.
create_reply(name, template_key) ==
    IF ~NameAccepted(name) THEN "Invalid name"
    ELSE IF Join(name) \in Range(instances) THEN "Instance already exists"
    ELSE IF template_key \notin TEMPLATES \/ template_key \notin ExistingTemplateDirs
         THEN "Template not found"
    ELSE "ok"

\* No create request has been answered yet.
NoCall == [raw |-> <<>>, answer |-> None]

\* Lines 238-250: name.strip(), the checks, shutil.copytree and
\* refresh_instances.
create_instance_copy(raw, template_key) ==
    LET name == strip(raw) IN
    /\ creating = None
    /\ IF create_reply(name, template_key) = "ok"
       THEN /\ fs' = fs \cup {Join(name)}
            /\ instances' \in refresh_instances(fs')
            /\ creating' = Join(name)
       ELSE UNCHANGED <<fs, instances, creating>>
    /\ UNCHANGED <<lockFile, up, action_lock, progress, thr, side>>

\* create_instance called without a record of the request being kept.
create_instance_begin(raw, template_key) ==
    /\ create_instance_copy(raw, template_key)
    /\ UNCHANGED create_call

\* /api/instance/create: create_instance(name, templ) and the answer sent.
POST_instance_create(raw, template_key) ==
    /\ create_instance_copy(raw, template_key)
    /\ create_call' = [raw |-> raw, answer |-> create_reply(strip(raw), template_key)]

\* Lines 251-253: if get_selected() is None: set_selected(name).
create_instance_end ==
    /\ creating # None
    /\ LET g == get_selected(instances, lockFile) IN
       lockFile' = IF g.ret = None THEN set_selected(instances, g.file, creating)
                   ELSE g.file
    /\ creating' = None
    /\ UNCHANGED <<fs, instances, up, action_lock, progress, thr, create_call, side>>

\* ------------------------------------------------------------ status probe

\* No docker compose ps output has been parsed yet.
NoProbe == [asked |-> FALSE]

\* Longest output of docker compose ps, in lines.
MaxLines == 2

\* A line of the output of docker compose ps --format json: the JSON object
\* of a running container ("run"), of a container in another state ("exit"),
\* text that is not a JSON object ("junk"), each with or without white space
\* before and after it, or a line of white space only.
Blank == [body |-> "", lead |-> FALSE, trail |-> FALSE]

Lines ==
    {[body |-> b, lead |-> l, trail |-> t] :
         b \in {"run", "exit", "junk"}, l \in BOOLEAN, t \in BOOLEAN}
    \cup {Blank}

\* What run_cmd returns for docker compose ps: the exit code and the output.
Outputs ==
    [code : ExitCodes,
     out : UNION {[1..k -> Lines] : k \in 0..MaxLines}]

\* The outputs of the instances that the caller did not ask about.
SampleOutputs ==
    {[code |-> 0, out |-> <<>>],
     [code |-> 0, out |-> <<[body |-> "run", lead |-> FALSE, trail |-> FALSE]>>],
     [code |-> 0, out |-> <<[body |-> "exit", lead |-> FALSE, trail |-> FALSE]>>],
     [code |-> 1, out |-> <<[body |-> "junk", lead |-> FALSE, trail |-> FALSE]>>]}

\* A line that compose_status writes itself.
Row(s) == [body |-> s, lead |-> FALSE, trail |-> FALSE]

\* out.strip(), line 186: the white space at the two ends of the whole
\* output goes, line ends included, so the blank lines at the two ends go
\* and the first and last line left lose their outer white space.
RECURSIVE DropBlankHead(_)
DropBlankHead(out) ==
    IF out # <<>> /\ Head(out).body = "" THEN DropBlankHead(Tail(out)) ELSE out

RECURSIVE DropBlankTail(_)
DropBlankTail(out) ==
    IF out # <<>> /\ out[Len(out)].body = ""
    THEN DropBlankTail(SubSeq(out, 1, Len(out) - 1))
    ELSE out

strip_lines(out) ==
    LET a == DropBlankTail(DropBlankHead(out))
    IN  [i \in 1..Len(a) |->
             [a[i] EXCEPT !.lead = IF i = 1 THEN FALSE ELSE @,
                          !.trail = IF i = Len(a) THEN FALSE ELSE @]]

\* Line 186: the lines of the stripped output that are not blank.
splitlines(out) == SelectSeq(strip_lines(out), LAMBDA l : l.body # "")

all_up_bad(lines) == \E i \in DOMAIN lines : lines[i].body = "run"

\* Lines 189-198: all_up starts True and a parsed object whose State is not
\* "running" makes it False; a line that json.loads or obj.get rejects
\* leaves it alone.
all_up(lines) == \A i \in DOMAIN lines : lines[i].body # "exit"

\* Lines 189-198: a parsed object gives "Name: State (Status)", any other
\* line is appended as it is.  Line 199 joins the rows with line ends; no row
\* holds one, so the text is kept as the sequence of its rows.
rows(lines) ==
    [i \in DOMAIN lines |->
         CASE lines[i].body = "run" -> Row("name: running (Up)")
           [] lines[i].body = "exit" -> Row("name: exited (Exited)")
           [] OTHER -> lines[i]]

\* compose_status, lines 179-199, with the output of docker compose ps of
\* each instance given by ps.
compose_status_ps(insts, name, ps) ==
    IF name \notin Range(insts)
    THEN [running |-> FALSE, text |-> <<Row("Instance not found")>>]
    ELSE IF ps[name].code # 0
    THEN [running |-> FALSE,
          text |-> IF strip_lines(ps[name].out) # <<>>
                   THEN strip_lines(ps[name].out)
                   ELSE <<Row("Error running docker compose ps")>>]
    ELSE IF splitlines(ps[name].out) = <<>>
    THEN [running |-> FALSE, text |-> <<Row("No containers")>>]
    ELSE [running |-> all_up(splitlines(ps[name].out)),
          text |-> rows(splitlines(ps[name].out))]

\* any_instance_running, lines 201-206.
any_instance_running_ps(insts, ps) ==
    \E name \in Range(insts) : compose_status_ps(insts, name, ps).running

\* One call of compose_status(name) and one of any_instance_running() with
\* the same containers: the outputs, the name and the two answers are kept.
Probe ==
    /\ probe = NoProbe
    /\ \E name \in Names \cup {"ghost"} :
       \E o \in IF name \in Range(instances) THEN Outputs
                ELSE {[code |-> 0, out |-> <<>>]} :
       \E rest \in [Range(instances) \ {name} -> SampleOutputs] :
           LET ps == [n \in Range(instances) |->
                          IF n = name THEN o ELSE rest[n]]
           IN  probe' = [asked |-> TRUE,
                         name |-> name,
                         ps |-> ps,
                         status |-> compose_status_ps(instances, name, ps),
                         any |-> any_instance_running_ps(instances, ps)]
    /\ UNCHANGED <<fs, instances, lockFile, up, action_lock, progress, thr,
                   creating, create_call, boots, refreshing, sup, plock, poll>>

\* ------------------------------------------------------- refresh_instances

\* No refresh_instances is between its first and its last statement.
\* pc: the line of refresh_instances the refreshing thread stands at; rest:
\* the names os.listdir returned that the loop has not come to yet; before:
\* the registry as it was when the call began (nothing in the source reads
\* it).
NoRefresh == [on |-> FALSE, pc |-> "idle", before |-> <<>>, rest |-> <<>>]

\* create_instance, lines 238-249: the checks and shutil.copytree; the
\* thread stands before refresh_instances().
create_instance_copytree(raw, template_key) ==
    LET name == strip(raw) IN
    /\ creating = None
    /\ create_reply(name, template_key) = "ok"
    /\ fs' = fs \cup {Join(name)}
    /\ creating' = Join(name)
    /\ refreshing' = [on |-> TRUE, pc |-> "L31", before |-> instances,
                      rest |-> <<>>]
    /\ UNCHANGED <<instances, lockFile, up, action_lock, progress, thr,
                   create_call, boots, probe, sup, plock, poll>>

\* Line 31: _instances = {}.
refresh_clear ==
    /\ refreshing.pc = "L31"
    /\ instances' = <<>>
    /\ refreshing' = [refreshing EXCEPT !.pc = "L34"]
    /\ UNCHANGED <<fs, lockFile, up, action_lock, progress, thr, creating,
                   create_call, boots, probe, sup, plock, poll>>

\* Line 34: os.listdir(INSTANCES_DIR).
refresh_listdir ==
    /\ refreshing.pc = "L34"
    /\ \E order \in Orders(fs) :
           refreshing' = [refreshing EXCEPT !.pc = "L35", !.rest = order]
    /\ UNCHANGED <<fs, instances, lockFile, up, action_lock, progress, thr,
                   creating, create_call, boots, probe, sup, plock, poll>>

\* Lines 35-37: one turn of the loop, _instances[name] = p for a directory.
refresh_add ==
    /\ refreshing.pc = "L35"
    /\ refreshing.rest # <<>>
    /\ LET name == Head(refreshing.rest) IN
       instances' = IF name \in fs /\ name \notin Range(instances)
                    THEN Append(instances, name)
                    ELSE instances
    /\ refreshing' = [refreshing EXCEPT !.rest = Tail(@)]
    /\ UNCHANGED <<fs, lockFile, up, action_lock, progress, thr, creating,
                   create_call, boots, probe, sup, plock, poll>>

\* The loop has ended and refresh_instances returns into create_instance,
\* lines 251-253.
refresh_return ==
    /\ refreshing.pc = "L35"
    /\ refreshing.rest = <<>>
    /\ creating # None
    /\ LET g == get_selected(instances, lockFile) IN
       lockFile' = IF g.ret = None THEN set_selected(instances, g.file, creating)
                   ELSE g.file
    /\ creating' = None
    /\ refreshing' = NoRefresh
    /\ UNCHANGED <<fs, instances, up, action_lock, progress, thr, create_call,
                   boots, probe, sup, plock, poll>>

\* ------------------------------------------------------------ port 80 manager

\* The two threads that call _update_port80: the startup thread, once
\* (line 1445), and _port80_monitor, every four seconds (lines 516-522).
SupThreads == {"main", "monitor"}

\* server: _port80_server (None, or the listener "srv" bound to port 80);
\* lock: the thread that holds _port80_lock; per thread, pc: the line it
\* stands at, should_run: its local of line 499, bind: how the constructor
\* of line 503 ended in its last call ("none" when it was not called);
\* failed: some bind has failed so far (nothing in the source reads the last
\* two).
InitialSup ==
    [server |-> None, lock |-> None, failed |-> FALSE,
     t |-> [x \in SupThreads |->
                [pc |-> IF x = "main" THEN "L1445" ELSE "L518",
                 should_run |-> FALSE, bind |-> "none"]]]

any_instance_running_bad(insts) == FALSE

\* any_instance_running(), lines 201-206.
any_instance_running(insts) ==
    \E name \in Range(insts) : compose_status(insts, name)

port80_after_bad(should_run, server, bind_ok) ==
    IF should_run THEN "srv" ELSE None

\* Lines 501-514: _port80_server after the body of the with block, bind_ok
\* telling whether ThreadingHTTPServer(("0.0.0.0", PORT_ALT), Handler) could
\* bind the port (the except clause of line 508 catches the failure).
port80_after(should_run, server, bind_ok) ==
    IF should_run /\ server = None
    THEN IF bind_ok THEN "srv" ELSE None
    ELSE IF ~should_run /\ server # None THEN None
    ELSE server

update_port80_read_bad(x) ==
    /\ sup.t[x].pc \in {"L1445", "L518"}
    /\ sup' = [sup EXCEPT !.t[x].pc = "L500", !.t[x].bind = "none"]
    /\ UNCHANGED <<fs, instances, lockFile, up, action_lock, progress, thr,
                   creating, create_call, boots, probe, refreshing, plock, poll>>

\* Line 499: should_run = not any_instance_running(), before the lock.
update_port80_read(x) ==
    /\ sup.t[x].pc \in {"L1445", "L518"}
    /\ sup' = [sup EXCEPT
           !.t[x].pc = "L500",
           !.t[x].should_run = ~any_instance_running(instances),
           !.t[x].bind = "none"]
    /\ UNCHANGED <<fs, instances, lockFile, up, action_lock, progress, thr,
                   creating, create_call, boots, probe, refreshing, plock, poll>>

\* Line 500: with _port80_lock.
update_port80_lock(x) ==
    /\ sup.t[x].pc = "L500"
    /\ sup.lock = None
    /\ sup' = [sup EXCEPT !.t[x].pc = "L501", !.lock = x]
    /\ UNCHANGED <<fs, instances, lockFile, up, action_lock, progress, thr,
                   creating, create_call, boots, probe, refreshing, plock, poll>>

\* Lines 501-514 and the end of the with block; the monitor goes back to its
\* sleep, the startup thread on to its own loop (line 1447).
update_port80_body(x) ==
    /\ sup.t[x].pc = "L501"
    /\ LET binds == sup.t[x].should_run /\ sup.server = None IN
       \E bind_ok \in IF binds THEN BOOLEAN ELSE {TRUE} :
           sup' = [sup EXCEPT
               !.server = port80_after(sup.t[x].should_run, sup.server, bind_ok),
               !.lock = None,
               !.failed = @ \/ (binds /\ ~bind_ok),
               !.t[x].bind = IF ~binds THEN "none"
                             ELSE IF bind_ok THEN "ok" ELSE "failed",
               !.t[x].pc = IF x = "monitor" THEN "L518" ELSE "L1447"]
    /\ UNCHANGED <<fs, instances, lockFile, up, action_lock, progress, thr,
                   creating, create_call, boots, probe, refreshing, plock, poll>>

update_port80(x) ==
    \/ update_port80_read(x)
    \/ update_port80_lock(x)
    \/ update_port80_body(x)

\* ------------------------------------------------------------ progress lock

\* _progress_lock, taken by progress_reset, progress_stage, progress_done
\* and get_progress (lines 97, 102, 109, 113).  holder: the thread that holds
\* it (0: nobody); at: the line its holder stood at when it took it; half:
\* the update of progress_reset has written active, done, ok and log and not
\* yet stages.
InitialPlock == [holder |-> 0, at |-> "", half |-> FALSE]

\* The handler thread that serves GET /api/progress.
Poller == MaxThreads + 1

\* pc: where that thread stands; record: the snapshot get_progress returned
\* to it; alias: the snapshot is the record itself and not a copy of it.
InitialPoll == [pc |-> "idle", alias |-> FALSE, record |-> InitialProgress]

\* The lines of _do_action_async that call progress_reset, progress_stage
\* or progress_done, and the two that call run_cmd_live, which calls
\* progress_stage for every line of output (line 165).
ProgressPcs_bad ==
    {"L324", "L328", "L329", "L330", "L348", "L349", "L350", "L361", "L362",
     "L364", "L366", "L370", "L372", "L374"}

ProgressPcs ==
    {"L328", "L329", "L330", "L348", "L349", "L350", "L361", "L362", "L364",
     "L366", "L370", "L372", "L374"}

ResetPcs == {"L328", "L348", "L361"}

CmdPcs == {"L363", "L371"}

\* with _progress_lock: of a worker that stands at a progress call.
progress_lock_acquire(w) ==
    /\ thr[w].pc \in ProgressPcs
    /\ plock.holder = 0
    /\ plock' = [plock EXCEPT !.holder = w, !.at = thr[w].pc]
    /\ UNCHANGED <<fs, instances, lockFile, up, action_lock, progress, thr,
                   creating, create_call, boots, probe, refreshing, sup, poll>>

\* Lines 98-99: _progress.update(active=True, done=False, ok=True, log="",
\* stages=[...]) writes its keys in this order; here the first four are
\* written.
progress_reset_half(w) ==
    /\ plock.holder = w
    /\ plock.at = thr[w].pc
    /\ thr[w].pc \in ResetPcs
    /\ ~plock.half
    /\ progress' = [progress EXCEPT !.active = TRUE, !.done = FALSE,
                                    !.ok = TRUE, !.log = <<>>]
    /\ plock' = [plock EXCEPT !.half = TRUE]
    /\ UNCHANGED <<fs, instances, lockFile, up, action_lock, thr, creating,
                   create_call, boots, probe, refreshing, sup, poll>>

progress_lock_release_bad(w) ==
    /\ plock.holder = w
    /\ plock.at # thr[w].pc
    /\ plock' = [plock EXCEPT !.at = "", !.half = FALSE]
    /\ UNCHANGED <<fs, instances, lockFile, up, action_lock, progress, thr,
                   creating, create_call, boots, probe, refreshing, sup, poll>>

\* The end of the with block of a progress call: the call itself has been
\* made, so the holder no longer stands where it took the lock.
progress_lock_release(w) ==
    /\ plock.holder = w
    /\ plock.at # thr[w].pc
    /\ plock' = InitialPlock
    /\ UNCHANGED <<fs, instances, lockFile, up, action_lock, progress, thr,
                   creating, create_call, boots, probe, refreshing, sup, poll>>

\* A step of _do_action_async, or its leaving the with block of
\* _action_lock, with _progress_lock looked at: a progress call is made by
\* the holder of the lock, any other statement by a thread that does not
\* hold it, and run_cmd_live finds the lock free for each line it streams.
locked_do_action_async(w) ==
    /\ thr[w].pc \in ProgressPcs => plock.holder = w /\ plock.at = thr[w].pc
    /\ thr[w].pc \notin ProgressPcs => plock.holder # w
    /\ thr[w].pc \in CmdPcs => plock.holder = 0
    /\ do_action_async(w) \/ Release(w)

deep_copy_bad(p) == [record |-> p, alias |-> TRUE]

\* Line 114: json.loads(json.dumps(_progress)) builds a new dict that
\* shares nothing with _progress.
deep_copy(p) == [record |-> p, alias |-> FALSE]

\* Line 113: with _progress_lock, in get_progress.
get_progress_lock ==
    /\ poll.pc = "idle"
    /\ plock.holder = 0
    /\ plock' = [plock EXCEPT !.holder = Poller, !.at = "L113"]
    /\ poll' = [poll EXCEPT !.pc = "L114"]
    /\ UNCHANGED <<fs, instances, lockFile, up, action_lock, progress, thr,
                   creating, create_call, boots, probe, refreshing, sup>>

\* Line 114 and the end of the with block.
get_progress_return ==
    /\ poll.pc = "L114"
    /\ poll' = [pc |-> "L1317", alias |-> deep_copy(get_progress).alias,
                record |-> deep_copy(get_progress).record]
    /\ plock' = [plock EXCEPT !.holder = 0, !.at = ""]
    /\ UNCHANGED <<fs, instances, lockFile, up, action_lock, progress, thr,
                   creating, create_call, boots, probe, refreshing, sup>>

\* The caller of get_progress changes what it was given (here it marks the
\* snapshot done); what it changes is the record when the two are one.
snapshot_change ==
    /\ poll.pc = "L1317"
    /\ poll' = [poll EXCEPT !.pc = "changed",
                            !.record = [@ EXCEPT !.done = ~@,
                                                 !.log = Append(@, "changed")]]
    /\ progress' = IF poll.alias
                   THEN [progress EXCEPT !.done = ~@,
                                         !.log = Append(@, "changed")]
                   ELSE progress
    /\ UNCHANGED <<fs, instances, lockFile, up, action_lock, thr, creating,
                   create_call, boots, probe, refreshing, sup, plock>>

\* Line 1317: send_json(...) and the end of the request.
snapshot_sent ==
    /\ poll.pc \in {"L1317", "changed"}
    /\ poll' = InitialPoll
    /\ UNCHANGED <<fs, instances, lockFile, up, action_lock, progress, thr,
                   creating, create_call, boots, probe, refreshing, sup, plock>>

\* ------------------------------------------------------------ specification

Startup_bad(insts, file) == IF insts # <<>> THEN insts[1] ELSE file

\* __main__, lines 1431-1442: the registry is read from the directory; a
\* selection is written if LOCK_FILE is absent and an instance exists; the
\* startup banner reads the selection.  file is what LOCK_FILE held before.
Startup(insts, file) ==
    LET f1 == IF file = None /\ insts # <<>>
              THEN set_selected(insts, file, insts[1]) ELSE file
    IN get_selected(insts, f1).file

\* The program after startup, for the registries in regs.  Names are
\* interchangeable, so one listing order per registry size is enough.
InitWith(regs) ==
    /\ instances \in regs
    /\ fs = Range(instances)
    /\ \E file \in Names \cup {None} : lockFile = Startup(instances, file)
    /\ up \in SUBSET fs
    /\ action_lock = 0
    /\ progress = InitialProgress
    /\ thr = [w \in Threads |-> Unborn]
    /\ creating = None
    /\ create_call = NoCall
    /\ boots = 0
    /\ probe = NoProbe
    /\ refreshing = NoRefresh
    /\ sup = InitialSup
    /\ plock = InitialPlock
    /\ poll = InitialPoll

\* The /api/action requests of Spec: each action once, without an instance,
\* with an instance of Names, and with a name ("ghost") that no instance
\* ever has.
ActionRequests ==
    {<<"pull", None>>, <<"stop", "ghost">>, <<"start", "b">>,
     <<"down_volumes", "a">>, <<"bogus", None>>}

\* Every mutating endpoint and every worker, started with no instance or
\* with two, of which at most the selected one is running.
Init == InitWith({<<>>, <<"a", "b">>}) /\ up \subseteq {lockFile}

Next ==
    \/ \E w \in Threads :
           \/ do_switch_to(w)
           \/ do_action_async(w)
           \/ do_delete_async(w)
           \/ do_wifi_async(w)
           \/ do_env_restart_async(w)
           \/ Release(w)
    \/ \E target \in Names \cup {None} : POST_switch_to(target)
    \/ \E r \in ActionRequests : POST_action(r[1], r[2])
    \/ \E name \in Names \cup {None} : POST_instance_delete(name)
    \/ \E fields \in SUBSET WifiFields : POST_wifi(fields)
    \/ POST_env_save
    \/ GET_status

Spec == Init /\ [][Next]_vars

\* The operations that read or write the Selection and the registry: switch,
\* delete, create and the selection reads, started with zero, one or two
\* instances.
InitSel == InitWith({<<>>, <<"a">>, <<"a", "b">>})

NextSel ==
    \/ \E w \in Threads :
           \/ do_switch_to(w)
           \/ do_delete_async(w)
           \/ Release(w)
    \/ \E target \in Names \cup {None} : POST_switch_to(target)
    \/ \E name \in Names \cup {None} : POST_instance_delete(name)
    \/ GET_status
    \/ \E name \in CreateNames, key \in TemplateKeys : create_instance_begin(name, key)
    \/ create_instance_end

SpecSel == InitSel /\ [][NextSel]_vars

\* create with its answer on record, the selection reads and delete, started
\* with zero, one or two instances, none of them running.
InitCreate == InitWith({<<>>, <<"a">>, <<"a", "b">>}) /\ up = {}

\* The create requests of SpecCreate: each name with the template that
\* exists, and a name with a key that has no directory and with an unknown
\* key.
CreateRequests ==
    {<<raw, "fkmtest">> : raw \in CreateNames}
        \cup {<< <<"b">>, "prod">>, << <<"a", " ">>, "nokey">>}

NextCreate ==
    \/ \E r \in CreateRequests : POST_instance_create(r[1], r[2])
    \/ create_instance_end
    \/ GET_status
    \/ \E name \in Names \cup {None} : POST_instance_delete(name)
    \/ \E w \in Threads : do_delete_async(w) \/ Release(w)

SpecCreate == InitCreate /\ [][NextCreate]_vars

\* Restarts of the process per behaviour.
MaxBoots == 1

\* The process is stopped at any moment and started again: the directories,
\* LOCK_FILE and the containers stay as they are, everything in memory is
\* lost, and __main__ runs (lines 1431-1442).
Restart ==
    /\ boots < MaxBoots
    /\ boots' = boots + 1
    /\ instances' \in refresh_instances(fs)
    /\ lockFile' = Startup(instances', lockFile)
    /\ action_lock' = 0
    /\ progress' = InitialProgress
    /\ thr' = [w \in Threads |-> Unborn]
    /\ creating' = None
    /\ create_call' = NoCall
    /\ refreshing' = NoRefresh
    /\ sup' = InitialSup
    /\ plock' = InitialPlock
    /\ poll' = InitialPoll
    /\ UNCHANGED <<fs, up, probe>>

\* create, delete and the selection reads, with a restart of the process at
\* any moment, none of the instances running.
InitRestart == InitWith({<<>>, <<"a">>, <<"a", "b">>}) /\ up = {}

NextRestart ==
    \/ Restart
    \/ \E raw \in CreateNames : create_instance_begin(raw, "fkmtest")
    \/ create_instance_end
    \/ GET_status
    \/ \E name \in Names : POST_instance_delete(name)
    \/ \E w \in Threads : do_delete_async(w) \/ Release(w)

SpecRestart == InitRestart /\ [][NextRestart]_vars

\* The actions of /api/action with the threads scheduled fairly: a worker
\* thread that can take a step, or leave its with block, eventually does.
NextLive ==
    \/ \E r \in ActionRequests : POST_action(r[1], r[2])
    \/ \E w \in Threads : do_action_async(w) \/ Release(w)

Fairness ==
    \A w \in Threads : WF_vars(do_action_async(w)) /\ WF_vars(Release(w))

SpecLive == Init /\ [][NextLive]_vars /\ Fairness

\* create with refresh_instances taken statement by statement, next to the
\* readers of the registry: the selection reads and the switch worker.
InitRefresh == InitSel

NextRefresh ==
    \/ \E raw \in CreateNames : create_instance_copytree(raw, "fkmtest")
    \/ refresh_clear
    \/ refresh_listdir
    \/ refresh_add
    \/ refresh_return
    \/ GET_status
    \/ \E target \in Names : POST_switch_to(target)
    \/ \E w \in Threads : do_switch_to(w) \/ Release(w)

SpecRefresh == InitRefresh /\ [][NextRefresh]_vars

\* The port 80 manager next to the /api/action operations, which start and
\* stop the containers; a request arrives when no operation is in flight.
NextSup ==
    \/ \E x \in SupThreads : update_port80(x)
    \/ \E r \in ActionRequests : InFlight = {} /\ POST_action(r[1], r[2])
    \/ \E w \in Threads : do_action_async(w) \/ Release(w)

SpecSup == Init /\ [][NextSup]_vars

\* The same with the threads scheduled fairly: the startup thread makes its
\* call, the monitor wakes from each sleep of line 518, and a thread at
\* with _port80_lock gets the lock when it is free again and again.
SupFairness ==
    /\ Fairness
    /\ \A x \in SupThreads :
           /\ WF_vars(update_port80_read(x))
           /\ SF_vars(update_port80_lock(x))
           /\ WF_vars(update_port80_body(x))

SpecSupLive == Init /\ [][NextSup]_vars /\ SupFairness

\* One /api/action operation with every lock looked at: the worker under
\* _action_lock taking _progress_lock for each progress call, the poller of
\* /api/progress, and the monitor of port 80 under _port80_lock.
NextLocks ==
    \/ \E r \in ActionRequests :
           (\A w \in Threads : thr[w].pc = "unborn") /\ POST_action(r[1], r[2])
    \/ \E w \in Threads :
           \/ progress_lock_acquire(w)
           \/ progress_reset_half(w)
           \/ locked_do_action_async(w)
           \/ progress_lock_release(w)
    \/ get_progress_lock
    \/ get_progress_return
    \/ snapshot_change
    \/ snapshot_sent
    \/ update_port80("monitor")

SpecLocks == Init /\ [][NextLocks]_vars

\* The three locks with their threads running together and scheduled fairly:
\* two /api/action operations may be accepted one after the other and meet
\* at _action_lock, each takes _progress_lock for its progress calls next to
\* the poller of /api/progress, and the startup thread and the monitor meet
\* at _port80_lock.
LockRequests == {<<"start", "b">>}

\* Two instances, the selected one running.
InitLocksLive == Init /\ instances = <<"a", "b">> /\ lockFile = "a" /\ up = {"a"}

NextLocksLive ==
    \/ \E r \in LockRequests : POST_action(r[1], r[2])
    \/ \E w \in Threads :
           \/ progress_lock_acquire(w)
           \/ progress_reset_half(w)
           \/ locked_do_action_async(w)
           \/ progress_lock_release(w)
    \/ get_progress_lock
    \/ get_progress_return
    \/ snapshot_sent
    \/ \E x \in SupThreads : update_port80(x)

\* A thread that can take a step eventually takes it; a thread that stands
\* at a with statement takes the lock if the lock is free again and again
\* (the holders keep it for a few statements, not for the time between two
\* requests or two ticks).  Nothing is assumed about requests arriving.
LocksFairness ==
    /\ \A w \in Threads :
           /\ SF_vars(locked_do_action_async(w))
           /\ SF_vars(progress_lock_acquire(w))
           /\ WF_vars(progress_reset_half(w))
           /\ WF_vars(progress_lock_release(w))
    /\ WF_vars(get_progress_return)
    /\ WF_vars(snapshot_sent)
    /\ \A x \in SupThreads :
           /\ WF_vars(update_port80_read(x))
           /\ SF_vars(update_port80_lock(x))
           /\ WF_vars(update_port80_body(x))

SpecLocksLive == InitLocksLive /\ [][NextLocksLive]_vars /\ LocksFairness

\* The status probe on its own: one probe per behaviour, over every output.
InitStatus == InitWith({<<>>, <<"a">>, <<"a", "b">>}) /\ up = {}

NextStatus == Probe

SpecStatus == InitStatus /\ [][NextStatus]_vars

\* Longest requested name of SpecName, the two at the length limit aside.
MaxNameLen == 3

Alphabet == {"a", "Z", "7", "-", "_", " ", "/", "U+00E9"}

\* Every string of at most MaxNameLen characters, one of NameLimit letters
\* and one of NameLimit + 1.
RawNames ==
    UNION {[1..n -> Alphabet] : n \in 0..MaxNameLen}
        \cup {[i \in 1..n |-> "a"] : n \in {NameLimit, NameLimit + 1}}

\* The name check of create_instance on every requested name: the registry
\* is empty and the template key resolves to nothing, so the answer is
\* "Invalid name" or "Template not found" and nothing is copied.
InitName == InitWith({<<>>})

\* Each behaviour makes one request.
NextName ==
    /\ create_call = NoCall
    /\ \E raw \in RawNames : POST_instance_create(raw, "nokey")

SpecName == InitName /\ [][NextName]_vars

\* ------------------------------------------------------------------ claims

\* The lines at which a started thread waits for the ActionLock.
LockPcs == {"L287", "L324", "L377", "L409", "L477"}

\* The thread is inside its "with _action_lock" body.
InBody(w) == thr[w].pc \notin ({"unborn", "ended"} \cup LockPcs)

StatusOf(p) == [i \in DOMAIN p.stages |-> p.stages[i].status]

LabelsOf(p) == [i \in DOMAIN p.stages |-> p.stages[i].label]

\* A switch worker that took the full path, and one that took the
\* start-only path (selected is set at line 292 only).
FullSwitch(w) ==
    thr[w].kind = "switch" /\ thr[w].selected \notin {None, thr[w].target}

StartOnlySwitch(w) ==
    /\ thr[w].kind = "switch"
    /\ \/ thr[w].selected = thr[w].target
       \/ thr[w].selected = None /\ thr[w].pc \in {"L294", "L295", "L296", "L297",
                                                    "L298", "L300"}

\* C1: while an accepted operation is in flight (its thread started and not
\* yet returned) no other mutating request is accepted, so at most one
\* accepted operation exists and no worker waits for the ActionLock behind
\* a worker that holds it.
C1_NeverQueued ==
    /\ Cardinality(InFlight) <= 1
    /\ \A w \in Threads : thr[w].pc \in LockPcs => action_lock = 0

\* C2: at most one background worker is inside its ActionLock-protected
\* body, and the one that is holds the lock.
C2_OneWorkerInBody ==
    \A w, v \in Threads :
        InBody(w) => /\ action_lock = w
                     /\ InBody(v) => v = w

\* C2 under contention: one worker in its body, another waiting at the lock.
C2_Witness ==
    \E w, v \in Threads : InBody(w) /\ thr[v].pc \in LockPcs /\ thr[w].ran # <<>>

\* C3: a switch to the selected instance (or with nothing selected) has the
\* single stage "Start target" and never runs docker compose down.
C3_StartOnlySwitch ==
    \A w \in Threads :
        StartOnlySwitch(w) =>
            /\ \A k \in DOMAIN thr[w].ran :
                   /\ thr[w].ran[k].cmd = "up"
                   /\ thr[w].ran[k].cwd = thr[w].target
            /\ Len(thr[w].ran) <= 1
            /\ thr[w].pc \in {"L295", "L296", "L297", "L298", "L300", "L163", "exit",
                              "raised"}
                   => LabelsOf(progress) = << <<"Start", thr[w].target>> >>
            /\ thr[w].pc \in {"L294", "L295", "L296", "L297", "L298", "L300", "L163",
                              "exit", "raised"}

C3_Witness ==
    \E w \in Threads :
        /\ StartOnlySwitch(w)
        /\ thr[w].pc = "exit"
        /\ Len(thr[w].ran) = 1
        /\ StatusOf(progress) = <<"done">>
        /\ lockFile = thr[w].target

\* C4: in a full switch whose Stop command exits non-zero the Selection stays
\* what it was, stage 0 becomes error, stages 1 and 2 stay pending, no start
\* command is run, and the operation finishes done with ok false.
C4_StopFails ==
    \A w \in Threads :
        (FullSwitch(w) /\ thr[w].ran # <<>> /\ thr[w].ran[1].code # 0) =>
            /\ Len(thr[w].ran) = 1
            /\ thr[w].ran[1].cmd = "down"
            /\ lockFile = thr[w].selected
            /\ thr[w].pc \in {"L306", "L308", "exit"}
            /\ StatusOf(progress) = IF thr[w].pc = "L306"
                                    THEN <<"running", "pending", "pending">>
                                    ELSE <<"error", "pending", "pending">>
            /\ thr[w].pc = "exit" => progress.done /\ ~progress.ok /\ ~progress.active

C4_Witness ==
    \E w \in Threads :
        /\ FullSwitch(w)
        /\ thr[w].pc = "exit"
        /\ Len(thr[w].ran) = 1
        /\ thr[w].ran[1].code # 0
        /\ progress.done

\* C5: a full switch from a to b has the stages [Stop a, Start b, Update
\* selection]; when both commands exit 0 it finishes with the three stages
\* done, ok true and the Selection equal to b.
C5_FullSwitch ==
    \A w \in Threads :
        (FullSwitch(w) /\ thr[w].pc \notin {"L303"}) =>
            /\ LabelsOf(progress) = << <<"Stop", thr[w].selected>>,
                                       <<"Start", thr[w].target>>,
                                       <<"Update selection", None>> >>
            /\ (thr[w].pc = "exit" /\ Len(thr[w].ran) = 2
                    /\ \A k \in 1..2 : thr[w].ran[k].code = 0)
                   => /\ StatusOf(progress) = <<"done", "done", "done">>
                      /\ progress.done /\ progress.ok
                      /\ lockFile = thr[w].target
                      /\ thr[w].ran[1].cmd = "down" /\ thr[w].ran[1].cwd = thr[w].selected
                      /\ thr[w].ran[2].cmd = "up" /\ thr[w].ran[2].cwd = thr[w].target

C5_Witness ==
    \E w \in Threads :
        /\ FullSwitch(w)
        /\ thr[w].pc = "exit"
        /\ Len(thr[w].ran) = 2
        /\ thr[w].ran[2].code = 0
        /\ lockFile = thr[w].target
        /\ progress.ok

\* C6: during a full switch LOCK_FILE is written only after the Stop and the
\* Start stage are both done; when Start fails after a successful Stop the
\* Selection still names the old instance, "Update selection" stays pending
\* and ok is false.
C6_SelectionWrittenLast ==
    \A w \in Threads :
        FullSwitch(w) =>
            /\ lockFile # thr[w].selected
                   => /\ thr[w].pc \in {"L318", "L319", "exit"}
                      /\ lockFile = thr[w].target
                      /\ StatusOf(progress)[1] = "done"
                      /\ StatusOf(progress)[2] = "done"
            /\ (thr[w].pc = "exit" /\ Len(thr[w].ran) = 2 /\ thr[w].ran[2].code # 0)
                   => /\ lockFile = thr[w].selected
                      /\ StatusOf(progress) = <<"done", "error", "pending">>
                      /\ progress.done /\ ~progress.ok

C6_Witness ==
    \E w \in Threads :
        /\ FullSwitch(w)
        /\ thr[w].pc = "exit"
        /\ Len(thr[w].ran) = 2
        /\ thr[w].ran[1].code = 0
        /\ thr[w].ran[2].code # 0
        /\ lockFile = thr[w].selected

\* A delete worker past its removal step that removed the instance
\* LOCK_FILE named (selected is set by the removal at line 391 only).
RemovedSelected(w) ==
    /\ thr[w].kind = "delete"
    /\ thr[w].pc \in {"L402", "L403", "exit"}
    /\ thr[w].selected = thr[w].target

\* C7: after delete has removed the selected instance while the registry
\* still holds an instance, LOCK_FILE names a registry member (no create
\* being between its registry refresh and its own selection read).
C7_DeleteSelectedReassigns ==
    \A w \in Threads :
        (RemovedSelected(w) /\ instances # <<>> /\ creating = None) =>
            /\ lockFile \in Range(instances)
            /\ get_selected(instances, lockFile).ret = lockFile

C7_Witness ==
    \E w \in Threads :
        /\ RemovedSelected(w)
        /\ thr[w].pc = "exit"
        /\ progress.ok
        /\ instances # <<>>
        /\ creating = None
        /\ thr[w].target \notin Range(instances)
        /\ lockFile \in Range(instances)

\* C8: after delete has removed the only instance, the selection read
\* returns none and LOCK_FILE holds no name.
C8_DeleteLastClears ==
    \A w \in Threads :
        (RemovedSelected(w) /\ instances = <<>>) =>
            /\ get_selected(instances, lockFile).ret = None
            /\ lockFile = None

\* C9: get_selected returns a registry member whenever the registry is not
\* empty, leaving that name in LOCK_FILE, and none when it is empty; once
\* create and delete have done their selection read, LOCK_FILE itself names
\* a member of a non-empty registry.
C9_SelectionResolves ==
    LET g == get_selected(instances, lockFile) IN
    /\ instances # <<>> => g.ret \in Range(instances) /\ g.file = g.ret
    /\ instances = <<>> => g.ret = None /\ g.file = lockFile
    /\ (instances # <<>> /\ creating = None
            /\ \A w \in Threads : thr[w].pc # "L393")
           => lockFile \in Range(instances)

\* A stale LOCK_FILE with a non-empty registry (after a removal or a create),
\* which the next read repairs.
C9_Witness ==
    /\ instances # <<>>
    /\ lockFile # None
    /\ lockFile \notin Range(instances)
    /\ get_selected(instances, lockFile).file \in Range(instances)

\* A step that is a progress_reset: every stage pending, the log empty.
IsReset ==
    /\ progress'.log = <<>>
    /\ ~progress'.done
    /\ \A i \in DOMAIN progress'.stages : progress'.stages[i].status = "pending"

\* Every snapshot has a prefix of terminal stages, then at most one running
\* stage, then pending stages only.
InIndexOrder(p) ==
    \A i, j \in DOMAIN p.stages :
        (i < j /\ p.stages[j].status # "pending")
            => p.stages[i].status \in {"done", "error"}

StrictChanges == {<<"pending", "running">>, <<"running", "done">>, <<"running", "error">>}

\* A step that changes a stage status of the current operation does so by
\* one of the changes in allowed, keeps the labels, and leaves the stages in
\* index order.
StageChangesWithin(allowed) ==
    (progress'.stages # progress.stages /\ ~IsReset) =>
        /\ LabelsOf(progress') = LabelsOf(progress)
        /\ \A i \in DOMAIN progress.stages :
               \/ progress'.stages[i].status = progress.stages[i].status
               \/ <<progress.stages[i].status, progress'.stages[i].status>> \in allowed
        /\ InIndexOrder(progress')

\* C10 as stated: every status change is pending->running, running->done or
\* running->error, and the stages stay in index order.
C10_StrictTransitions ==
    [][StageChangesWithin(StrictChanges)]_vars

\* C10 amended: as above, except that the only stage of an operation that is
\* refused before any command ran goes from pending to error directly.
C10_Transitions ==
    [][/\ StageChangesWithin(StrictChanges \cup {<<"pending", "error">>})
       /\ \A i \in DOMAIN progress.stages :
              (i \in DOMAIN progress'.stages
                   /\ progress.stages[i].status = "pending"
                   /\ progress'.stages[i].status = "error")
                  => Len(progress.stages) = 1 /\ progress.log = <<>>]_vars

C10_Witness ==
    /\ StatusOf(progress) = <<"done", "done", "running">>
    /\ \E w \in Threads : InBody(w)

\* The workers whose k-th stage runs exactly the k-th command: switch,
\* start, stop, pull, clear-data and env-restart.
CommandPerStage(w) == thr[w].kind \in {"switch", "action", "env"}

\* C11: in a switch, start, stop, pull, clear-data or env-restart, a command
\* that exits non-zero is the last command the operation runs; when the
\* worker has finished, the stage of that command is error, the stages
\* before it are done, the stages after it are still pending, and the
\* record is done with ok false.
C11_FailedStageHalts ==
    \A w \in Threads :
        CommandPerStage(w) =>
            \A k \in DOMAIN thr[w].ran :
                thr[w].ran[k].code # 0 =>
                    /\ k = Len(thr[w].ran)
                    /\ thr[w].pc = "exit" =>
                           /\ k \in DOMAIN progress.stages
                           /\ \A j \in DOMAIN progress.stages :
                                  progress.stages[j].status =
                                      IF j < k THEN "done"
                                      ELSE IF j = k THEN "error" ELSE "pending"
                           /\ progress.done /\ ~progress.ok

\* A clear-data whose first command failed while a Restart stage was planned.
C11_Witness ==
    \E w \in Threads :
        /\ thr[w].kind = "action"
        /\ thr[w].action = "down_volumes"
        /\ thr[w].pc = "exit"
        /\ Len(thr[w].ran) = 1
        /\ thr[w].ran[1].code # 0
        /\ StatusOf(progress) = <<"error", "pending">>
        /\ ~progress.ok

\* The first word of the first stage label each worker gives progress_reset.
OwnFirstLabel(w) ==
    IF thr[w].kind = "switch" THEN {"Start", "Stop"}
    ELSE IF thr[w].kind = "action" THEN {thr[w].action}
    ELSE IF thr[w].kind = "delete" THEN {"Delete", "Stop containers"}
    ELSE IF thr[w].kind = "wifi" THEN {"Set WiFi parameters"}
    ELSE {"Restart", "Apply .env changes"}

\* C12: a record with done true and ok false has a stage with status error,
\* and when a worker has just finished with that record its stage list is
\* one that worker wrote.
C12_FailureHasErrorStage ==
    (progress.done /\ ~progress.ok) =>
        /\ \E i \in DOMAIN progress.stages : progress.stages[i].status = "error"
        /\ \A w \in Threads :
               thr[w].pc = "exit" =>
                   /\ progress.stages # <<>>
                   /\ LabelsOf(progress)[1][1] \in OwnFirstLabel(w)

\* C13: a finished config-apply has ok true exactly when every command it
\* ran exited 0, and with ok false one of its stages is error.
C13_WifiOkNeedsAll ==
    \A w \in Threads :
        (thr[w].kind = "wifi" /\ thr[w].pc = "exit") =>
            /\ progress.ok <=> \A k \in DOMAIN thr[w].ran : thr[w].ran[k].code = 0
            /\ ~progress.ok =>
                   \E i \in DOMAIN progress.stages : progress.stages[i].status = "error"

\* C14: clear-data on X has the stages [Clear X, Restart X] when X is
\* running as the teardown starts and [Clear X] alone otherwise; the restart
\* is the second command, run only after the clear exited 0 and whenever a
\* Restart stage follows a successful clear; ok is true exactly when every
\* command that was run exited 0.
C14_ClearData ==
    \A w \in Threads :
        (thr[w].kind = "action" /\ thr[w].action = "down_volumes") =>
            LET u == thr[w].use_name
                ran == thr[w].ran
            IN
            /\ thr[w].pc \in {"L362", "L363"} =>
                   LabelsOf(progress) =
                       IF u \in up
                       THEN << <<"down_volumes", u>>, <<"Restart", u>> >>
                       ELSE << <<"down_volumes", u>> >>
            /\ ran # <<>> =>
                   /\ ran[1] = [cmd |-> "down_volumes", cwd |-> u, code |-> ran[1].code]
                   /\ Len(ran) <= 2
                   /\ Len(ran) = 2 =>
                          /\ ran[1].code = 0
                          /\ Len(progress.stages) = 2
                          /\ ran[2].cmd = "up" /\ ran[2].cwd = u
                   /\ thr[w].pc = "exit" =>
                          /\ progress.done
                          /\ progress.ok <=> \A k \in DOMAIN ran : ran[k].code = 0
                          /\ (ran[1].code = 0 /\ Len(progress.stages) = 2)
                                 => Len(ran) = 2

C14_Witness ==
    \E w \in Threads :
        /\ thr[w].kind = "action"
        /\ thr[w].action = "down_volumes"
        /\ thr[w].pc = "exit"
        /\ Len(thr[w].ran) = 2
        /\ thr[w].ran[2].code = 0
        /\ StatusOf(progress) = <<"done", "done">>
        /\ progress.ok

Refused(raw, template_key) ==
    \/ ~NameAccepted(strip(raw))
    \/ Join(strip(raw)) \in Range(instances)
    \/ template_key \notin TEMPLATES \cap ExistingTemplateDirs

\* C16: a create request with an invalid name, a registered name or an
\* unresolved template key is answered with an error and changes neither
\* the instance directories, nor the registry, nor LOCK_FILE, and starts no
\* copy (a request that leaves the record of the last call as it was
\* changes nothing at all).
C16_RejectedCreateChangesNothing ==
    [][create_call' # create_call =>
           \A r \in CreateRequests :
               (/\ r[1] = create_call'.raw
                /\ Refused(r[1], r[2])
                /\ POST_instance_create(r[1], r[2])) =>
                   /\ create_call'.answer \in {"Invalid name", "Instance already exists",
                                               "Template not found"}
                   /\ UNCHANGED <<fs, instances, lockFile, creating>>]_vars

\* A create of a registered name (typed with a trailing space) was refused.
C16_Witness ==
    /\ create_call.answer = "Instance already exists"
    /\ create_call.raw = <<"a", " ">>
    /\ "a" \in Range(instances)

\* The pattern [A-Za-z0-9_-]{1,64}.
PatternMatches(name) ==
    /\ Len(name) \in 1..64
    /\ \A i \in DOMAIN name : name[i] \in AsciiLetters \cup AsciiDigits \cup {"_", "-"}

\* C17: create_instance passes the name check for a requested name exactly
\* when the name, stripped of surrounding whitespace, matches
\* [A-Za-z0-9_-]{1,64}.
C17_ValidatorIsPattern ==
    create_call # NoCall =>
        (create_call.answer # "Invalid name" <=> PatternMatches(strip(create_call.raw)))

\* C18: the copy step of a successful create adds the new name, and only
\* it, to the registry; its selection step makes the new name the Selection
\* when the registry holds nothing else, and leaves a LOCK_FILE that names
\* another registered instance as it is.
C18_CreateSelects ==
    [][/\ (creating = None /\ creating' # None) =>
              /\ creating' \notin Range(instances)
              /\ Range(instances') = Range(instances) \cup {creating'}
       /\ (creating # None /\ creating' = None) =>
              /\ Range(instances) = {creating} => lockFile' = creating
              /\ lockFile \in Range(instances) \ {creating} => lockFile' = lockFile]_vars

\* A create into an empty registry has finished (no delete was ever
\* accepted): the new instance is the only one and is selected.
C18_Witness ==
    /\ create_call.answer = "ok"
    /\ creating = None
    /\ instances = <<Join(strip(create_call.raw))>>
    /\ lockFile = instances[1]
    /\ \A w \in Threads : thr[w].pc = "unborn"

\* C19: a request whose instance name no registry ever held is not accepted,
\* so no worker carries such a name, and no command is run on its behalf (a
\* worker carries the name only if its request was accepted).
C19_AbsentInstanceRejected ==
    \A w \in Threads :
        thr[w].target \notin Names \cup {None} => thr[w].ran = <<>>

\* C20: the ActionLock is held only by a worker inside its body; when no
\* operation is in flight the lock is free and every mutating request that
\* passes its validation is accepted.
C20_LockFreeWhenIdle ==
    /\ \A w \in Threads : action_lock = w => InBody(w)
    /\ InFlight = {} =>
           /\ action_lock = 0
           /\ action_reply = "accepted"
           /\ wifi_reply(WifiFields) = "accepted"
           /\ \A t \in Range(instances) :
                  switch_to_reply(t) = "accepted" /\ delete_reply(t) = "accepted"

\* A worker has ended by an exception (the record it reset was never marked
\* done), nothing is in flight and a further request can be made.
C20_Witness ==
    /\ InFlight = {}
    /\ \E w \in Threads : thr[w].pc = "ended"
    /\ CanSpawn
    /\ ~progress.done
    /\ action_reply = "accepted"

\* C23: at most one instance is running.
C23_AtMostOneRunning == Cardinality(up) <= 1

\* C30: the only requests that can start an env-restart are configuration
\* writes, so a step in which a thread becomes an env-restart worker is one;
\* such a step happens only with no operation in flight and with the
\* instance running.
C30_EnvRestartOnlyWhenIdle ==
    [][\A w \in Threads :
           (thr[w].kind # "env" /\ thr'[w].kind = "env") =>
               /\ InFlight = {}
               /\ compose_status(instances, thr'[w].target)]_vars

\* C28: a restart leaves a LOCK_FILE that names a member of the registry as
\* it is, and the first selection read after it returns that name; a restart
\* with no LOCK_FILE and a non-empty registry writes the name of a registry
\* member.
C28_SelectionSurvivesRestart ==
    [][boots' = boots + 1 =>
           /\ lockFile \in Range(instances') =>
                  /\ lockFile' = lockFile
                  /\ get_selected(instances', lockFile').ret = lockFile
           /\ (lockFile = None /\ instances' # <<>>) =>
                  lockFile' \in Range(instances')]_vars

\* After a restart, with no worker started since, the Selection is the
\* instance that the registry lists second.
C28_Witness ==
    /\ boots = 1
    /\ Len(instances) = 2
    /\ lockFile = instances[2]
    /\ \A w \in Threads : thr[w].pc = "unborn"
    /\ get_selected(instances, lockFile).ret = lockFile

\* The instance the probe asked about is registered and its status command
\* succeeded.
Probed ==
    /\ probe.asked
    /\ probe.name \in Range(instances)
    /\ probe.ps[probe.name].code = 0

\* The positions of the unparseable lines of an output, in order.
JunkAt(out) ==
    SelectSeq([i \in 1..Len(out) |-> i], LAMBDA i : out[i].body = "junk")

\* An output has a line that is not blank and none of its parsed records
\* reports a state other than running.
AllRecordsRunning(o) ==
    /\ o.code = 0
    /\ \E i \in DOMAIN o.out : o.out[i].body # ""
    /\ \A i \in DOMAIN o.out : o.out[i].body # "exit"

\* C29 as stated: whenever the status command succeeded, isRunning is true
\* iff every parsed record reports running (so also for an output with no
\* lines), and the unparseable lines are in statusText unchanged.
C29_IffAllParsedRunning ==
    Probed =>
        LET out == probe.ps[probe.name].out
        IN  /\ probe.status.running <=>
                   (\A i \in DOMAIN out :
                        out[i].body \in {"run", "exit"} => out[i].body = "run")
            /\ SelectSeq(probe.status.text, LAMBDA l : l.body = "junk") =
                   SelectSeq(out, LAMBDA l : l.body = "junk")

\* C29: isRunning is true iff the instance is registered, the status command
\* exits with 0, its output has a line that is not blank and no parsed record
\* reports a state other than running; the unparseable lines are in
\* statusText in their order, unchanged but for the white space at the very
\* start and the very end of the output; anyRunning is true iff isRunning is
\* true for some registered instance.
C29_IsRunning ==
    probe.asked =>
        /\ probe.status.running <=>
               /\ probe.name \in Range(instances)
               /\ AllRecordsRunning(probe.ps[probe.name])
        /\ Probed =>
               LET out == probe.ps[probe.name].out
                   at == JunkAt(out)
                   kept == SelectSeq(probe.status.text,
                                     LAMBDA l : l.body = "junk")
               IN  /\ Len(kept) = Len(at)
                   /\ \A k \in DOMAIN at :
                          /\ kept[k].lead =
                                 /\ out[at[k]].lead
                                 /\ \E j \in 1..(at[k] - 1) : out[j].body # ""
                          /\ kept[k].trail =
                                 /\ out[at[k]].trail
                                 /\ \E j \in (at[k] + 1)..Len(out) :
                                        out[j].body # ""
        /\ probe.any <=>
               \E n \in Range(instances) : AllRecordsRunning(probe.ps[n])

\* A running record followed by an unparseable line that has white space
\* before it: the instance is running and the line is in the text.
C29_Witness ==
    /\ Probed
    /\ probe.status.running
    /\ probe.any
    /\ \E i \in DOMAIN probe.status.text :
           probe.status.text[i].body = "junk" /\ probe.status.text[i].lead
    /\ \E i \in DOMAIN probe.ps[probe.name].out :
           probe.ps[probe.name].out[i].body = "run"

\* C21: every accepted operation eventually finishes: its thread, once
\* started, eventually has left its with block and ended.
C21_EveryOperationFinishes ==
    \A w \in Threads : (w \in InFlight) ~> (thr[w].pc = "ended")

\* C27: while a thread runs refresh_instances, the registry that
\* get_instances returns to any other thread is the registry before the
\* refresh or the registry after it.
C27_ReadersSeeWholeRegistry ==
    refreshing.on =>
        \/ instances = refreshing.before
        \/ Range(instances) = fs

\* A thread ends the body of its call of _update_port80 in this step.
TickEnds(x) == sup.t[x].pc = "L501" /\ sup'.t[x].pc # "L501"

\* C24: a tick reads whether nothing is running, and its step under the
\* listener lock depends on that reading and on the listener only: nothing
\* running and no listener, the port is bound (or the bind fails); something
\* running and a listener, the listener is stopped; in the two other cases
\* the listener stays as it is.
C24_TickFollowsAnyRunning ==
    [][\A x \in SupThreads :
           /\ (sup.t[x].pc \in {"L518", "L1445"} /\ sup'.t[x].pc = "L500") =>
                  sup'.t[x].should_run = (Range(instances) \cap up = {})
           /\ TickEnds(x) =>
                  LET nothing == sup.t[x].should_run
                      stopped == sup.server = None
                  IN  /\ (nothing /\ stopped) =>
                             \/ sup'.t[x].bind = "ok" /\ sup'.server # None
                             \/ sup'.t[x].bind = "failed" /\ sup'.server = None
                      /\ (~nothing /\ ~stopped) => sup'.server = None
                      /\ (nothing /\ ~stopped) => sup'.server = sup.server
                      /\ (~nothing /\ stopped) => sup'.server = None]_vars

\* The startup thread bound the port, and a later tick of the monitor, which
\* read that something is running, has stopped the listener.
C24_Witness ==
    /\ sup.t["main"].bind = "ok"
    /\ sup.server = None
    /\ sup.t["monitor"].pc = "L518"
    /\ ~sup.t["monitor"].should_run
    /\ ~sup.failed
    /\ up # {}

\* C25: a bind that fails leaves no listener stored and the lock free, the
\* monitor goes back to its sleep, which it never leaves for good, and every
\* tick that read nothing running while no listener is stored calls the
\* bind, whatever failed before.
C25_FailedBindRetried ==
    [][\A x \in SupThreads :
           /\ sup'.t["monitor"].pc \in {"L518", "L500", "L501"}
           /\ TickEnds(x) =>
                  /\ (sup.t[x].should_run /\ sup.server = None) =>
                         sup'.t[x].bind \in {"ok", "failed"}
                  /\ sup'.t[x].bind = "failed" =>
                         /\ sup'.server = None
                         /\ sup'.lock = None
                         /\ x = "monitor" => sup'.t[x].pc = "L518"]_vars

\* A bind failed, and in a later tick the monitor has bound the port.
C25_Witness ==
    /\ sup.failed
    /\ sup.t["main"].bind = "failed"
    /\ sup.t["monitor"].bind = "ok"
    /\ sup.server # None

\* C22: a snapshot is the whole record as it is at the moment of the copy,
\* taken while no worker holds the progress lock and no reset is half done,
\* so a snapshot with stages that are all pending has an empty log, done
\* false and ok true, and an active one has stages; a record is half written
\* only while a worker holds the lock; and a change of a snapshot leaves the
\* record as it is.
C22_SnapshotsAreWholeCopies ==
    [][/\ (poll.pc = "L114" /\ poll'.pc = "L1317") =>
              /\ poll'.record = progress
              /\ ~plock.half
              /\ \A w \in Threads : plock.holder # w
              /\ poll'.record.active => poll'.record.stages # <<>>
              /\ (/\ poll'.record.stages # <<>>
                  /\ \A i \in DOMAIN poll'.record.stages :
                         poll'.record.stages[i].status = "pending") =>
                     /\ poll'.record.log = <<>>
                     /\ ~poll'.record.done
                     /\ poll'.record.ok
       /\ plock'.half => plock'.holder \in Threads
       /\ (poll.pc = "L1317" /\ poll'.pc = "changed") =>
              /\ progress' = progress
              /\ poll'.record # poll.record]_vars

\* A snapshot taken during an operation has been changed and the record
\* still has what the snapshot had.
C22_Witness ==
    /\ poll.pc = "changed"
    /\ progress.active
    /\ progress.stages # <<>>
    /\ poll.record.stages = progress.stages
    /\ poll.record.done # progress.done
    /\ poll.record.log # progress.log

\* C26 as stated: no thread holds two of the three locks at once.
C26_NoTwoLocks ==
    \A w \in Threads : ~(action_lock = w /\ plock.holder = w)

\* C26: a worker holds the progress lock only while it holds the ActionLock,
\* which it took first; the poller holds the progress lock alone; the thread
\* that holds the listener lock stands in the body of _update_port80 and
\* that body touches neither of the other two locks.
C26_LockOrder ==
    [][/\ \A w \in Threads :
              plock'.holder = w => action_lock' = w /\ thr'[w].pc \notin LockPcs
       /\ plock'.holder = Poller => poll'.pc = "L114"
       /\ sup'.lock # None => sup'.t[sup'.lock].pc = "L501"
       /\ (sup.lock # None /\ sup'.lock = None) =>
              UNCHANGED <<action_lock, plock>>]_vars

\* A worker holds the ActionLock and the progress lock while the monitor
\* holds the listener lock.
C26_Witness ==
    /\ \E w \in Threads : action_lock = w /\ plock.holder = w
    /\ sup.lock = "monitor"

\* The positions of _do_wifi_async up to the end of the loop of stage 0.
WifiLoopPcs == {"L409", "L410", "L434", "L437", "L439", "L441", "L442"}

\* The parameter-setting commands of a config-apply all exited 0.
AllSetOk(w) ==
    \A k \in DOMAIN thr[w].ran :
        k <= Len(thr[w].cmds_set) => thr[w].ran[k].code = 0

\* C31: a config-apply runs its parameter-setting commands in order whatever
\* their exit codes, so past the loop all of them have run; the local ok and
\* the status of stage 0 are the conjunction of their results; and a further
\* command (the commit) is run only when that conjunction is true.
C31_SetStageRunsAll ==
    \A w \in Threads :
        thr[w].kind = "wifi" =>
            LET ran == thr[w].ran
                cmds == thr[w].cmds_set
            IN  /\ \A k \in DOMAIN ran : k <= Len(cmds) => ran[k].cmd = cmds[k]
                /\ thr[w].pc \notin WifiLoopPcs \cup {"unborn", "ended"} =>
                       /\ Len(ran) >= Len(cmds)
                       /\ thr[w].ok <=> AllSetOk(w)
                /\ thr[w].pc \in {"L449", "L453"} =>
                       progress.stages[1].status =
                           IF AllSetOk(w) THEN "done" ELSE "error"
                /\ thr[w].pc = "L449" => ~AllSetOk(w)
                /\ Len(ran) > Len(cmds) =>
                       /\ AllSetOk(w)
                       /\ ran[Len(cmds) + 1].cmd = "uci commit"

\* The first of two parameter-setting commands failed, the second was run
\* and exited 0, and the operation finished with stage 0 in error and no
\* commit.
C31_Witness ==
    \E w \in Threads :
        /\ thr[w].kind = "wifi"
        /\ thr[w].pc = "exit"
        /\ Len(thr[w].cmds_set) = 2
        /\ Len(thr[w].ran) = 2
        /\ thr[w].ran[1].code # 0
        /\ thr[w].ran[2].code = 0
        /\ StatusOf(progress) = <<"error", "pending">>
        /\ ~progress.ok

\* C32: a config-apply that has built its stage list has the third stage
\* exactly when some registered instance is running, and a restart command
\* it runs is run in a running instance.
C32_RestartStageIffAnyRunning ==
    \A w \in Threads :
        thr[w].kind = "wifi" =>
            /\ thr[w].pc = "L434" =>
                   (Len(thr[w].stages) = 3 <=> any_instance_running(instances))
            /\ thr[w].pc = "L470" => thr[w].selected \in up

\* C33: while an accepted operation has not finished (its thread is started
\* and has not yet called progress_done or ended), a snapshot of the progress
\* record has done false and active true.
C33_AcceptedMeansActive ==
    (\E w \in Threads : thr[w].pc \notin {"unborn", "ended", "exit", "raised"}) =>
        /\ ~get_progress.done
        /\ get_progress.active

\* C34: once every worker that was started has ended, the progress record
\* is done: no worker ends after progress_reset without progress_done.
C34_EndedMeansDone ==
    InFlight = {} => progress.done

\* C35: when a switch or a delete has completed (and no create stands
\* between its registry refresh and its selection read), LOCK_FILE is absent
\* or names a member of the registry.
C35_StoreNeverStale ==
    \A w \in Threads :
        (thr[w].kind \in {"switch", "delete"} /\ thr[w].pc = "exit"
             /\ creating = None) =>
            lockFile = None \/ lockFile \in Range(instances)

\* C36: whatever a create is doing, a step of a selection read or of the
\* create itself leaves a LOCK_FILE that names an existing instance as it
\* is, and the selection write of a switch to an existing instance leaves
\* LOCK_FILE naming its target: the Selection is what it would be with no
\* create under way.
C36_RebuildKeepsSelection ==
    [][/\ (thr' = thr /\ lockFile \in fs) => lockFile' = lockFile
       /\ \A w \in Threads :
              (/\ thr[w].kind = "switch"
               /\ thr[w].target \in fs
               /\ \/ thr[w].pc = "L317" /\ thr'[w].pc = "L318"
                  \/ thr[w].pc = "L298" /\ thr'[w].pc = "L300" /\ thr[w].code = 0) =>
                  lockFile' = thr[w].target]_vars

\* C37: with LOCK_FILE naming a registry member, every step that is not a
\* step of a switch or delete worker (so every step of start, stop, pull,
\* clear-data, env-restart and config-apply, and every answer of a handler,
\* accepted or not) leaves LOCK_FILE, the registry and the instance
\* directories as they are.
C37_OthersKeepSelection ==
    [][(/\ lockFile \in Range(instances)
        /\ ~\E w \in Threads :
               thr[w].kind \in {"switch", "delete"} /\ thr'[w] # thr[w]) =>
           /\ lockFile' = lockFile
           /\ instances' = instances
           /\ fs' = fs]_vars

\* A clear-data with its restart has finished on the instance that the
\* registry lists second, which is still the Selection.
C37_Witness ==
    \E w \in Threads :
        /\ thr[w].kind = "action"
        /\ thr[w].action = "down_volumes"
        /\ thr[w].pc = "exit"
        /\ Len(thr[w].ran) = 2
        /\ Len(instances) = 2
        /\ lockFile = thr[w].use_name

\* C38: the record that get_progress returns has active = not done, in
\* every state: before any operation, after progress_reset, after each
\* progress_stage and log line, and after progress_done.
C38_ActiveIsNotDone == get_progress.active = ~get_progress.done

\* An operation has ended in failure: progress_done(False) was called on a
\* record with a stage in error.
C38_Witness ==
    /\ \E w \in Threads : thr[w].pc = "exit"
    /\ progress.done
    /\ ~progress.active
    /\ ~progress.ok
    /\ \E i \in DOMAIN progress.stages : progress.stages[i].status = "error"

\* Some worker is blocked in the read of an external command that never
\* ends.
Hung == \E v \in Threads : thr[v].pc = "L163"

\* Worker w holds _progress_lock for the progress call it stands at.
HoldsProgress(w) == plock.holder = w /\ plock.at = thr[w].pc

\* C39: with the threads scheduled fairly, a worker that stands at
\* with _action_lock gets the lock unless an external command never ends; a
\* worker that stands at a progress call gets _progress_lock; _progress_lock
\* is always released again, so that a poller can take it; and a thread
\* that stands at with _port80_lock gets that lock.
C39_NoThreadWaitsForever ==
    /\ \A w \in Threads :
           (thr[w].pc = "L324") ~> (action_lock = w \/ Hung)
    /\ \A w \in Threads :
           (thr[w].pc \in ProgressPcs /\ ~HoldsProgress(w)) ~> HoldsProgress(w)
    /\ (plock.holder # 0) ~> (plock.holder = 0)
    /\ \A x \in SupThreads : (sup.t[x].pc = "L500") ~> (sup.lock = x)

\* All three locks are held and waited for at once: the second operation
\* waits for _action_lock, its holder waits for _progress_lock, which the
\* poller holds, and the startup thread waits for _port80_lock, which the
\* monitor holds.
C39_Witness ==
    /\ \E w, v \in Threads :
           /\ thr[w].pc = "L324"
           /\ action_lock = v
           /\ thr[v].pc \in ProgressPcs
    /\ plock.holder = Poller
    /\ sup.t["main"].pc = "L500"
    /\ sup.lock = "monitor"

\* The listener is bound exactly when no instance is running.
ListenerMatches == (sup.server # None) <=> ~any_instance_running(instances)

\* C40: with the startup thread and the monitor both calling _update_port80,
\* each reading the run-state before it takes _port80_lock, and with no bind
\* ever failing, the listener is from some moment on bound exactly when no
\* instance is running (the run-state stops changing once the operations
\* have ended); and _port80_server changes only in the hands of the holder
\* of _port80_lock, a listener being built only when there is none.
C40_ListenerSettles ==
    /\ <>[](sup.failed \/ ListenerMatches)
    /\ [][/\ sup'.server # sup.server =>
                 \E x \in SupThreads : sup.lock = x /\ sup.t[x].pc = "L501"
          /\ \A x \in SupThreads :
                 (sup.t[x].pc = "L501" /\ sup'.t[x].bind = "ok") =>
                     sup.server = None /\ sup'.server = "srv"]_vars

\* The startup thread has bound the listener on a reading taken before an
\* instance was started: the listener is up next to a running instance, no
\* bind has failed, and the monitor has yet to see it.
C40_Witness ==
    /\ sup.t["main"].pc = "L1447"
    /\ sup.t["main"].bind = "ok"
    /\ sup.server # None
    /\ any_instance_running(instances)
    /\ ~sup.failed
    /\ InFlight = {}

====
